---- MODULE Spec2Model ----
(***************************************************************************)
(* A model of logview (src/logview.py): the display of GitHub Actions log  *)
(* archives.  Python str values are sequences of one-character strings;    *)
(* "\n" is the newline, "ESC" stands for chr(27) and "BQ" for the          *)
(* backquote.  Configuration keys, which the program only looks up, are    *)
(* TLA+ strings.                                                           *)
(***************************************************************************)
EXTENDS Integers, Sequences, FiniteSets, TLC

VARIABLES
    argv,        \* parsed command line: [auto, files]
    dir,         \* names of the archives present in the file system
    config,      \* the current Config object: [path, tbl, phrases]
    pc,          \* position of the running function
    idx,         \* index into args.files of the main loop
    logfile,     \* logfile_path of the running show_action_log
    matcher,     \* MemberFilter of the open archive
    not_scanned, \* show_action_log: set(matcher.select(do_not_scan))
    not_printed, \* show_action_log: set(matcher.select(do_not_show))
    mi,          \* index of the next member of the running member loop
    summary,     \* show_action_log: the summary list
    out,         \* everything printed so far, one record per print call
    raised,      \* the exception that ended the invocation, or NoError
    input,       \* arguments of a function applied on its own
    result       \* what that function returned

vars == <<argv, dir, config, pc, idx, logfile, matcher, not_scanned,
          not_printed, mi, summary, out, raised, input, result>>

---------------------------------------------------------------------------
(* Characters and Python's str operations.                                 *)

Ascii == <<" ","!","\"","#","$","%","&","'","(",")","*","+",",","-",".","/","0","1","2","3","4","5","6","7","8","9",":",";","<","=",">","?","@","A","B","C","D","E","F","G","H","I","J","K","L","M","N","O","P","Q","R","S","T","U","V","W","X","Y","Z","[","\\","]","^","_","BQ","a","b","c","d","e","f","g","h","i","j","k","l","m","n","o","p","q","r","s","t","u","v","w","x","y","z","{","|","}","~">>

\* ord(c): the position in the printable range, 10 for "\n", 27 for "ESC"
Ord(c) ==
    IF c = "\n" THEN 10
    ELSE IF c = "ESC" THEN 27
    ELSE 31 + (CHOOSE i \in 1..95 : Ascii[i] = c)

\* chr(n) for the printable range
Chr(n) == Ascii[n - 31]

Min(a, b) == IF a < b THEN a ELSE b

IsDigit(c) == c \in {"0", "1", "2", "3", "4", "5", "6", "7", "8", "9"}

IsUpper(c) ==
    c \in {"A", "B", "C", "D", "E", "F", "G", "H", "I", "J", "K", "L", "M",
           "N", "O", "P", "Q", "R", "S", "T", "U", "V", "W", "X", "Y", "Z"}

\* s[i:] with i counted from 0, as a Python slice
SliceFrom(s, i) == SubSeq(s, Min(i, Len(s)) + 1, Len(s))

\* s[:i]
SliceTo(s, i) == SubSeq(s, 1, Min(i, Len(s)))

\* s.startswith(sub) at 1-based position i
MatchAt(s, sub, i) ==
    /\ i + Len(sub) - 1 <= Len(s)
    /\ \A k \in 1..Len(sub) : s[i + k - 1] = sub[k]

\* the 1-based positions of s at which sub occurs
Occurrences(s, sub) == {i \in 1..(Len(s) + 1) : MatchAt(s, sub, i)}

\* sub in s
Contains(s, sub) == Occurrences(s, sub) # {}

\* the least element of a set of positions that is >= from, 0 when none
LeastFrom(S, from) ==
    IF \E i \in S : i >= from
    THEN CHOOSE i \in S : i >= from /\ \A j \in S : j >= from => i <= j
    ELSE 0

\* the greatest element of a set of positions, 0 when it is empty
Greatest(S) == IF S = {} THEN 0 ELSE CHOOSE i \in S : \A j \in S : j <= i

\* s.find(sub, from): least 1-based position >= from, 0 when there is none
Find(s, sub, from) == LeastFrom(Occurrences(s, sub), from)

\* s.rfind(sub), 1-based, 0 when there is none
RFind(s, sub) == Greatest(Occurrences(s, sub))

RECURSIVE ReplaceFrom(_, _, _, _)
\* s.replace(old, new) from position i on; an empty old goes between all
\* the characters
ReplaceFrom(s, old, new, i) ==
    IF i > Len(s) THEN IF old = <<>> THEN new ELSE <<>>
    ELSE (IF old = <<>> THEN new \o <<s[i]>>
          ELSE IF MatchAt(s, old, i) THEN new
          ELSE <<s[i]>>)
         \o ReplaceFrom(s, old, new,
                        IF old # <<>> /\ MatchAt(s, old, i) THEN i + Len(old)
                        ELSE i + 1)

\* s.replace(old, new): every non-overlapping occurrence, left to right
Replace(s, old, new) == ReplaceFrom(s, old, new, 1)

\* s.lower()
Lower(s) ==
    [i \in 1..Len(s) |-> IF IsUpper(s[i]) THEN Chr(Ord(s[i]) + 32) ELSE s[i]]

\* the first position at which two str differ, 0 when one is a prefix of
\* the other
FirstDifference(a, b) ==
    LeastFrom({i \in 1..Min(Len(a), Len(b)) : a[i] # b[i]}, 1)

\* a < b for two str: code point order, a proper prefix first
StrLess(a, b) ==
    IF FirstDifference(a, b) = 0 THEN Len(a) < Len(b)
    ELSE Ord(a[FirstDifference(a, b)]) < Ord(b[FirstDifference(a, b)])

RECURSIVE SplitOn(_, _)
\* s cut at its first sep, at position k; the rest is split further
SplitAt(s, sep, k) ==
    IF k = 0 THEN <<s>>
    ELSE <<SubSeq(s, 1, k - 1)>> \o SplitOn(SubSeq(s, k + 1, Len(s)), sep)

\* s.split(sep) for a one-character sep
SplitOn(s, sep) == SplitAt(s, sep, Find(s, <<sep>>, 1))

\* text.splitlines(): no empty last line after a final newline
SplitLines(text) ==
    IF text = <<>> THEN <<>>
    ELSE IF text[Len(text)] = "\n" THEN SplitOn(SubSeq(text, 1, Len(text) - 1), "\n")
    ELSE SplitOn(text, "\n")

RECURSIVE JoinWith(_, _)
\* sep.join(parts)
JoinWith(parts, sep) ==
    IF parts = <<>> THEN <<>>
    ELSE IF Len(parts) = 1 THEN parts[1]
    ELSE parts[1] \o sep \o JoinWith(Tail(parts), sep)

\* the elements of a list, as a set
ToSet(s) == {s[i] : i \in 1..Len(s)}

---------------------------------------------------------------------------
(* name_key_function: the sort key of an archive member name.              *)

\* the length of the longest run of digits of s that starts at position i
DigitRunLength(s, i) ==
    LeastFrom({k \in 0..(Len(s) - i + 1) : i + k > Len(s) \/ ~IsDigit(s[i + k])}, 0)

\* the longest run of digits of s that starts at 1-based position i
DigitRun(s, i) == SubSeq(s, i, i + DigitRunLength(s, i) - 1)

RECURSIVE ToInt(_)
\* int(digits)
ToInt(digits) ==
    IF digits = <<>> THEN 0
    ELSE 10 * ToInt(SubSeq(digits, 1, Len(digits) - 1))
         + (Ord(digits[Len(digits)]) - 48)

RECURSIVE Decimal(_)
\* str(n) for n >= 0
Decimal(n) ==
    IF n < 10 THEN <<Chr(48 + n)>> ELSE Decimal(n \div 10) \o <<Chr(48 + (n % 10))>>

\* s padded on the left with the character c to the width
PadLeft(s, c, width) == [i \in 1..(width - Len(s)) |-> c] \o s

\* a variant of format(n, "05d") that does not pad, which leaves the sort
\* key equal to the name: the ordering properties must tell the two apart
Format05d_unpadded(n) == Decimal(n)

\* format(n, "05d")
Format05d(n) == PadLeft(Decimal(n), "0", 5)

\* the position of the first slash of name that a digit follows, 0 if none
SlashDigit(name) ==
    LeastFrom({i \in 1..(Len(name) - 1) : name[i] = "/" /\ IsDigit(name[i + 1])}, 1)

\* name.replace(digits, format(int(digits), "05d")), for a match of the
\* pattern; name itself when there was no match
PadRun(name, digits) ==
    IF digits # <<>> THEN Replace(name, digits, Format05d(ToInt(digits))) ELSE name

\* the first half of name_key_function: the run that name starts with,
\* re.search(r"^([0-9]+)[^0-9]*"), is padded
PadLeading(name) == PadRun(name, DigitRun(name, 1))

\* the second half of name_key_function, applied to the name the first half
\* made: the run after the first slash that a digit follows,
\* re.search(r"/([0-9]+)[^0-9]*"), is padded
PadSlashRun(name1) ==
    IF SlashDigit(name1) # 0
    THEN PadRun(name1, DigitRun(name1, SlashDigit(name1) + 1))
    ELSE name1

name_key_function(name) == PadSlashRun(PadLeading(name))

RECURSIVE InsertByKey(_, _)
\* the pair (key, name) goes after every pair whose key is not greater: the
\* sort is stable
InsertByKey(sorted, x) ==
    IF sorted = <<>> THEN <<x>>
    ELSE IF StrLess(x[1], sorted[1][1]) THEN <<x>> \o sorted
    ELSE <<sorted[1]>> \o InsertByKey(Tail(sorted), x)

RECURSIVE SortPairs(_)
SortPairs(pairs) ==
    IF pairs = <<>> THEN <<>>
    ELSE InsertByKey(SortPairs(SubSeq(pairs, 1, Len(pairs) - 1)), pairs[Len(pairs)])

\* the names of a sorted list of (key, name) pairs
Names(pairs) == [i \in 1..Len(pairs) |-> pairs[i][2]]

\* sorted(filenames, key=name_key_function)
SortedByKey(filenames) ==
    Names(SortPairs([i \in 1..Len(filenames) |->
                        <<name_key_function(filenames[i]), filenames[i]>>]))

---------------------------------------------------------------------------
(* pathlib.Path(s).parts and fnmatch.fnmatch, as on a POSIX system.        *)

\* the number of slashes s starts with
LeadingSlashes(s) ==
    LeastFrom({k \in 0..Len(s) : k = Len(s) \/ s[k + 1] # "/"}, 0)

\* Path(s).parts: the root first, of which exactly two slashes are kept as
\* "//", then the components that are neither empty nor "."
Parts(s) ==
    (IF LeadingSlashes(s) = 0 THEN <<>>
     ELSE IF LeadingSlashes(s) = 2 THEN << <<"/", "/">> >>
     ELSE << <<"/">> >>)
    \o SelectSeq(IF s = <<>> THEN <<>> ELSE SplitOn(s, "/"),
                 LAMBDA c : c # <<>> /\ c # <<".">>)

\* the 1-based position of the "]" that closes the "[" at position 1 of pat,
\* 0 when pat has none: a leading "!" and a "]" right after it are skipped
ClassEnd(pat) ==
    Find(pat, <<"]">>,
         IF Len(pat) >= 2 /\ pat[2] = "!"
         THEN (IF Len(pat) >= 3 /\ pat[3] = "]" THEN 4 ELSE 3)
         ELSE (IF Len(pat) >= 2 /\ pat[2] = "]" THEN 3 ELSE 2))

RECURSIVE InClassItems(_, _)
\* whether c is in the character class body: x-y is a range, anything else
\* stands for itself
InClassItems(c, stuff) ==
    IF stuff = <<>> THEN FALSE
    ELSE IF Len(stuff) >= 3 /\ stuff[2] = "-"
            /\ Ord(stuff[1]) <= Ord(c) /\ Ord(c) <= Ord(stuff[3])
         THEN TRUE
    ELSE IF (Len(stuff) < 3 \/ stuff[2] # "-") /\ c = stuff[1] THEN TRUE
    ELSE InClassItems(c, SubSeq(stuff, IF Len(stuff) >= 3 /\ stuff[2] = "-"
                                       THEN 4 ELSE 2, Len(stuff)))

\* whether c matches the class whose text between the brackets is stuff
InClass(c, stuff) ==
    IF stuff # <<>> /\ stuff[1] = "!"
    THEN ~InClassItems(c, Tail(stuff))
    ELSE InClassItems(c, stuff)

\* what is left to match after the first element of pat took its share of
\* name: (name, pat) pairs, one of which must match.  end is ClassEnd(pat).
Steps(name, pat, end) ==
    IF pat[1] = "*"
    THEN {<<name, Tail(pat)>>}
         \cup (IF name # <<>> THEN {<<Tail(name), pat>>} ELSE {})
    ELSE IF name = <<>> THEN {}
    ELSE IF pat[1] = "?" THEN {<<Tail(name), Tail(pat)>>}
    ELSE IF pat[1] = "[" /\ end # 0
         THEN (IF InClass(name[1], SubSeq(pat, 2, end - 1))
               THEN {<<Tail(name), SubSeq(pat, end + 1, Len(pat))>>}
               ELSE {})
    ELSE IF name[1] = pat[1] THEN {<<Tail(name), Tail(pat)>>}
    ELSE {}

RECURSIVE fnmatch(_, _)
\* fnmatch.fnmatch(name, pat): the whole name against "*", "?", "[seq]",
\* "[!seq]" and literal characters, case kept
fnmatch(name, pat) ==
    IF pat = <<>> THEN name = <<>>
    ELSE \E step \in Steps(name, pat, ClassEnd(pat)) : fnmatch(step[1], step[2])

---------------------------------------------------------------------------
(* Archives.  A ZipFile is a list of members in infolist() order, each     *)
(* [filename, text]; read(name) is the text of the member of that name.    *)

TIMETAG_SIZE == 28

NoError == "none"

\* f.is_dir(): the name ends with a slash
is_dir(filename) == filename # <<>> /\ filename[Len(filename)] = "/"

\* zip.read(name).decode(): the text of the last member of that name
ZipRead(zip, name) ==
    zip[Greatest({i \in 1..Len(zip) : zip[i].filename = name})].text

\* the MemberFilter of an archive with these ordered filenames: err is
\* "IndexError" for an archive without files
FilterOf(zip, ordered) ==
    [ordered_filenames |-> ordered,
     parts |-> [i \in 1..Len(ordered) |-> Parts(ordered[i])],
     timestamp |-> IF ordered = <<>> THEN <<>>
                   ELSE SliceTo(ZipRead(zip, ordered[1]), TIMETAG_SIZE),
     err |-> IF ordered = <<>> THEN "IndexError" ELSE NoError]

\* MemberFilter.__init__: the filenames of the members that are no
\* directories, sorted
MemberFilter(zip) ==
    FilterOf(zip, SortedByKey(SelectSeq([i \in 1..Len(zip) |-> zip[i].filename],
                                        LAMBDA f : ~is_dir(f))))

\* all(fnmatch.fnmatch(f, p) for f, p in zip(filename_parts, pattern_parts)):
\* zip() stops at the shorter of the two
PartsMatch(filename_parts, pattern_parts) ==
    \A k \in 1..Min(Len(filename_parts), Len(pattern_parts)) :
        fnmatch(filename_parts[k], pattern_parts[k])

\* a variant of the test without the comparison of the lengths, which
\* matches a pattern against a prefix of the parts
Selects_prefix(filename_parts, pattern_parts) ==
    PartsMatch(filename_parts, pattern_parts)

\* the test of one filename against one pattern in MemberFilter.select
Selects(filename_parts, pattern_parts) ==
    /\ Len(filename_parts) = Len(pattern_parts)
    /\ PartsMatch(filename_parts, pattern_parts)

\* "/".join(filename_parts) for each of a list of parts
JoinAll(parts) == [i \in 1..Len(parts) |-> JoinWith(parts[i], <<"/">>)]

\* the inner loop of MemberFilter.select for one pattern
SelectOne(parts, pattern_parts) ==
    JoinAll(SelectSeq(parts, LAMBDA p : Selects(p, pattern_parts)))

RECURSIVE select(_, _)
\* MemberFilter.select(patterns): matches, pattern by pattern
select(m, patterns) ==
    IF patterns = <<>> THEN <<>>
    ELSE SelectOne(m.parts, Parts(patterns[1])) \o select(m, Tail(patterns))

---------------------------------------------------------------------------
(* MemberFilter on its own: an archive is drawn, the filter is built from  *)
(* it, and one list of patterns is selected.                               *)

MaxMembers == 2

\* the time tag of a log line of a day of November 2021
Timetag(day) == <<"2","0","2","1","-","1","1","-","1">> \o <<day>> \o <<"T","0","2",":","3","1",":","2","8",".","6","7","5","2","3","8","0","Z">>

\* member names as GitHub writes them, and names that try the sort key
MemberNames ==
    { <<"f","i","l","e","2",".","t","x","t">>, <<"f","i","l","e","1","1",".","t","x","t">>, <<"2","_","a",".","t","x","t">>, <<"1","1","_","a",".","t","x","t">>,
      <<"2","_","a","2",".","t","x","t">>, <<"1","1","_","a","2",".","t","x","t">>, <<"9","9","9","9","9","_","a",".","t","x","t">>, <<"1","0","0","0","0","0","_","a",".","t","x","t">>,
      <<"d","1","1","/","2",".","t","x","t">>, <<"d","1","1","/","1","1",".","t","x","t">>, <<"d","/","2","_","b",".","t","x","t">>, <<"d","/","1","1","_","b",".","t","x","t">>,
      <<"d","1","1","/">>, <<"a","2","_","1","1",".","t","x","t">>, <<"B",".","t","x","t">> }

PatternLists ==
    { <<>>, << <<"*",".","t","x","t">> >>, << <<"*">> >>, << <<"d","1","1","/","*">> >>, << <<"*","/","*">> >>,
      << <<"*","/","2","*">> >>, << <<"[","0","-","9","]","*","_","a","?",".","t","x","t">> >>, << <<"d","/","*">>, <<"2","_","a",".","t","x","t">> >>,
      << <<"*">>, <<"*",".","t","x","t">> >>, << <<"*","/","*","/","*">> >> }

\* lists of at most n elements of S
ListsOf(S, n) == UNION {[1..k -> S] : k \in 0..n}

\* lists of at most n different elements of S
DistinctLists(S, n) ==
    {l \in ListsOf(S, n) : \A i, j \in 1..Len(l) : i # j => l[i] # l[j]}

\* the archive with these member names, each member one log line
ZipOf(names) ==
    [i \in 1..Len(names) |->
        [filename |-> names[i], text |-> Timetag("4") \o names[i] \o <<"\n">>]]

NoMatcher == [ordered_filenames |-> <<>>, parts |-> <<>>, timestamp |-> <<>>,
              err |-> NoError]

NoResult == [patterns |-> <<>>, selected |-> <<>>]

MainIdle ==
    /\ argv = [auto |-> FALSE, files |-> <<>>]
    /\ dir = {}
    /\ config = [path |-> <<>>, tbl |-> [phrases |-> <<>>], phrases |-> <<>>]
    /\ idx = 0
    /\ logfile = <<>>
    /\ not_scanned = {}
    /\ not_printed = {}
    /\ mi = 0
    /\ summary = <<>>
    /\ out = <<>>
    /\ raised = NoError

InitFilter ==
    /\ MainIdle
    /\ pc = "filter_new"
    /\ matcher = NoMatcher
    /\ input \in {[zip |-> ZipOf(names)] : names \in DistinctLists(MemberNames, MaxMembers)}
    /\ result = NoResult

\* matcher = MemberFilter(zip)
NewFilter ==
    /\ pc = "filter_new"
    /\ matcher' = MemberFilter(input.zip)
    /\ raised' = matcher'.err
    /\ pc' = IF matcher'.err = NoError THEN "filter_ready" ELSE "filter_raised"
    /\ UNCHANGED <<argv, dir, config, idx, logfile, not_scanned, not_printed,
                   mi, summary, out, input, result>>

\* matcher.select(patterns)
Select ==
    /\ pc = "filter_ready"
    /\ \E patterns \in PatternLists :
          result' = [patterns |-> patterns, selected |-> select(matcher, patterns)]
    /\ pc' = "filter_done"
    /\ UNCHANGED <<argv, dir, config, idx, logfile, matcher, not_scanned,
                   not_printed, mi, summary, out, raised, input>>

NextFilter == NewFilter \/ Select

SpecFilter == InitFilter /\ [][NextFilter]_vars

---------------------------------------------------------------------------
(* Colors, the configuration and the line scanner.                         *)

\* class ColorName(Enum): the members by name, each with its value, the
\* ANSI sequence of colorama's Fore.<NAME>
ColorName ==
    << << <<"N","O","N","E">>, <<>> >>,
       << <<"B","L","A","C","K">>, <<"ESC","[","3","0","m">> >>,
       << <<"B","L","U","E">>, <<"ESC","[","3","4","m">> >>,
       << <<"C","Y","A","N">>, <<"ESC","[","3","6","m">> >>,
       << <<"G","R","E","E","N">>, <<"ESC","[","3","2","m">> >>,
       << <<"L","I","G","H","T","B","L","A","C","K","_","E","X">>, <<"ESC","[","9","0","m">> >>,
       << <<"L","I","G","H","T","B","L","U","E","_","E","X">>, <<"ESC","[","9","4","m">> >>,
       << <<"L","I","G","H","T","C","Y","A","N","_","E","X">>, <<"ESC","[","9","6","m">> >>,
       << <<"L","I","G","H","T","G","R","E","E","N","_","E","X">>, <<"ESC","[","9","2","m">> >>,
       << <<"L","I","G","H","T","M","A","G","E","N","T","A","_","E","X">>, <<"ESC","[","9","5","m">> >>,
       << <<"L","I","G","H","T","R","E","D","_","E","X">>, <<"ESC","[","9","1","m">> >>,
       << <<"L","I","G","H","T","W","H","I","T","E","_","E","X">>, <<"ESC","[","9","7","m">> >>,
       << <<"L","I","G","H","T","Y","E","L","L","O","W","_","E","X">>, <<"ESC","[","9","3","m">> >>,
       << <<"R","E","D">>, <<"ESC","[","3","1","m">> >>,
       << <<"R","E","S","E","T">>, <<"ESC","[","3","9","m">> >>,
       << <<"W","H","I","T","E">>, <<"ESC","[","3","7","m">> >>,
       << <<"Y","E","L","L","O","W">>, <<"ESC","[","3","3","m">> >> >>

\* whether ColorName[color] finds a member; a KeyError when it does not
IsColorName(color) == \E i \in 1..Len(ColorName) : ColorName[i][1] = color

\* ColorName[color].value
ColorValue(color) ==
    ColorName[CHOOSE i \in 1..Len(ColorName) : ColorName[i][1] = color][2]

\* Highlighter(text, ColorName[color]): text and the highlighted text, which
\* ends with str(Fore.RESET)
Highlighter(text, color) ==
    [text |-> text,
     highlighted |-> IF color = <<"N","O","N","E">> THEN text
                     ELSE ColorValue(color) \o text \o <<"ESC","[","3","9","m">>]

RECURSIVE ReplacePhrases(_, _)
\* for phrase in phrases: line = line.replace(phrase.text, phrase.highlighted)
ReplacePhrases(line, phrases) ==
    IF phrases = <<>> THEN line
    ELSE ReplacePhrases(Replace(line, phrases[1].text, phrases[1].highlighted),
                        Tail(phrases))

\* colorize_line: a line that holds an ANSI start sequence is left alone
colorize_line(line, phrases) ==
    IF ~Contains(line, <<"ESC", "[">>) THEN ReplacePhrases(line, phrases) ELSE line

\* default_config as tomllib.loads reads it: the [tool.logview] table, with
\* the sub-table phrases as a list of (phrase, color name) in file order
default_config ==
    [log_file_directory |-> <<>>,
     archives |-> <<"l","o","g","s","*",".","z","i","p">>,
     repository |-> <<>>,
     contains_member |-> <<"*",".","t","x","t">>,
     do_not_scan |-> << <<"*">> >>,
     do_not_show |-> <<>>,
     show_at_end |-> <<>>,
     keep_timetags |-> FALSE,
     do_not_print |-> << <<" ","r","e","m","o","t","e",":"," ","C","o","u","n","t","i","n","g"," ","o","b","j","e","c","t","s",":"," ">>,
                         <<" ","r","e","m","o","t","e",":"," ","C","o","m","p","r","e","s","s","i","n","g"," ","o","b","j","e","c","t","s",":"," ">>,
                         <<" ","R","e","c","e","i","v","i","n","g"," ","o","b","j","e","c","t","s",":"," ">>,
                         <<" ","R","e","s","o","l","v","i","n","g"," ","d","e","l","t","a","s",":"," ">> >>,
     summary_title |-> <<"e","r","r","o","r","s">>,
     summary_color |-> <<"R","E","D">>,
     summary_patterns |-> << <<"w","a","r","n","i","n","g">>, <<"e","r","r","o","r">>,
                             <<"P","r","o","c","e","s","s"," ","c","o","m","p","l","e","t","e","d"," ","w","i","t","h"," ","e","x","i","t"," ","c","o","d","e"," ","1">> >>,
     summary_exemptions |-> << <<"E","v","a","l","u","a","t","i","n","g"," ","c","o","n","t","i","n","u","e"," ","o","n"," ","e","r","r","o","r">>,
                               <<"h","i","n","t",":"," ","o","f"," ","y","o","u","r"," ","n","e","w"," ","r","e","p","o","s","i","t","o","r","i","e","s",","," ","w","h","i","c","h"," ","w","i","l","l"," ","s","u","p","p","r","e","s","s"," ","t","h","i","s"," ","w","a","r","n","i","n","g",","," ","c","a","l","l",":">>,
                               <<"f","a","i","l","_","c","i","_","i","f","_","e","r","r","o","r",":"," ","f","a","l","s","e">> >>,
     phrases |-> << << <<" ","O","K">>, <<"G","R","E","E","N">> >>,
                    << <<"P","A","S","S","E","D">>, <<"G","R","E","E","N">> >>,
                    << <<"F","A","I","L","E","D">>, <<"R","E","D">> >>,
                    << <<"S","K","I","P","P","E","D">>, <<"L","I","G","H","T","Y","E","L","L","O","W","_","E","X">> >>,
                    << <<"h","i","n","t",":">>, <<"G","R","E","E","N">> >> >>]

\* one print call: what was printed (k), the configuration key of a
\* diagnostic (a), the file or member it belongs to (f), a line number (n)
\* and the text (t).  Empty lines and rules of "=" are not recorded.
Printed(k, a, f, n, t) == [k |-> k, a |-> a, f |-> f, n |-> n, t |-> t]

\* the diagnostic of Config.get for a key that is not in the table
UnknownKey(name) == Printed("unknown_key", name, <<>>, 0, <<>>)

\* the diagnostic of Config.__init__ for a phrase color that is no ColorName
UnknownColor(color) == Printed("unknown_color", "phrases", <<>>, 0, color)

\* a variant of the lookup for a table that lacks the key show_at_end
Known_without_show_at_end(cfg, name) == name \in DOMAIN cfg.tbl \ {"show_at_end"}

\* name in self._my_config
Known(cfg, name) == name \in DOMAIN cfg.tbl

\* the first key of the list that Config.get does not find, "" when it
\* finds them all
FirstUnknown(cfg, names) ==
    IF \A i \in 1..Len(names) : Known(cfg, names[i]) THEN ""
    ELSE names[LeastFrom({i \in 1..Len(names) : ~Known(cfg, names[i])}, 1)]

\* what a function has done when it returns or raises: its value, what it
\* printed, and the exception, NoError when it returned
Done(value, printed, err) == [value |-> value, out |-> printed, err |-> err]

\* Config.get(name) of a key that is not in the table: the diagnostic, then
\* the KeyError of self._my_config[name]
GetFails(value, printed, name) ==
    Done(value, Append(printed, UnknownKey(name)), "KeyError")

RECURSIVE LoadPhrases(_, _)
\* the loop of Config.__init__ over the phrases table
LoadPhrases(pairs, phrases) ==
    IF pairs = <<>> THEN Done(phrases, <<>>, NoError)
    ELSE IF ~IsColorName(pairs[1][2])
         THEN Done(phrases, <<UnknownColor(pairs[1][2])>>, "KeyError")
    ELSE LoadPhrases(Tail(pairs),
                     Append(phrases, Highlighter(pairs[1][1], pairs[1][2])))

NoConfig == [path |-> <<>>, tbl |-> [phrases |-> <<>>], phrases |-> <<>>]

\* the Config object, once the phrases are loaded
ConfigLoaded(path, tbl, loaded) ==
    Done(IF loaded.err = NoError
         THEN [path |-> path, tbl |-> tbl, phrases |-> loaded.value]
         ELSE NoConfig,
         loaded.out, loaded.err)

\* Config.__init__ given the parsed [tool.logview] table of the file (of
\* default_config when path is None, written <<>>)
ConfigOfTable(path, tbl) ==
    IF "phrases" \notin DOMAIN tbl THEN Done(NoConfig, <<>>, "KeyError")
    ELSE ConfigLoaded(path, tbl, LoadPhrases(tbl.phrases, <<>>))

\* format(num, " 3d"): a space for the sign, padded on the left to 3
Format3d(num) == PadLeft(<<" ">> \o Decimal(num), " ", 3)

\* "{: 3d} {} {}".format(num, filename, line)
SummaryEntry(num, filename, line) ==
    Format3d(num) \o <<" ">> \o filename \o <<" ">> \o line

\* any(True for pattern in do_not_print if pattern in line)
Discarded(cfg, line) ==
    \E i \in 1..Len(cfg.tbl.do_not_print) : Contains(line, cfg.tbl.do_not_print[i])

\* some lowered summary pattern is in the lowered line
HasError(cfg, line) ==
    \E i \in 1..Len(cfg.tbl.summary_patterns) :
        Contains(Lower(line), Lower(cfg.tbl.summary_patterns[i]))

\* a variant of the exemption test that ignores the letter case
Exempt_any_case(cfg, line) ==
    \E i \in 1..Len(cfg.tbl.summary_exemptions) :
        Contains(Lower(line), Lower(cfg.tbl.summary_exemptions[i]))

\* any(True for exempt in summary_exemptions if exempt in line)
Exempt(cfg, line) ==
    \E i \in 1..Len(cfg.tbl.summary_exemptions) :
        Contains(line, cfg.tbl.summary_exemptions[i])

\* the line as check_one_file scans it: without its time tag unless
\* keep_timetags
Chop(cfg, line) ==
    IF ~cfg.tbl.keep_timetags THEN SliceFrom(line, TIMETAG_SIZE) ELSE line

\* the test of check_one_file on a chopped line: "flagged", "plain", or the
\* key that Config.get did not find
Verdict(cfg, line) ==
    IF ~HasError(cfg, line) THEN "plain"
    ELSE IF ~Known(cfg, "summary_exemptions") THEN "summary_exemptions"
    ELSE IF Exempt(cfg, line) THEN "plain"
    ELSE "flagged"

\* the else branch of check_one_file: the line is printed with its phrases
\* colorized
PlainLine(cfg, filename, num, line, is_printed) ==
    Done(<<>>,
         IF is_printed
         THEN <<Printed("line", "", filename, num, colorize_line(line, cfg.phrases))>>
         ELSE <<>>,
         NoError)

\* the flagged branch of check_one_file: the line goes to the summary and is
\* printed whole in the summary color
FlaggedLine(cfg, filename, num, line, is_printed) ==
    IF ~is_printed THEN Done(<<SummaryEntry(num, filename, line)>>, <<>>, NoError)
    ELSE IF ~Known(cfg, "summary_color") THEN GetFails(<<>>, <<>>, "summary_color")
    ELSE IF ~IsColorName(cfg.tbl.summary_color) THEN Done(<<>>, <<>>, "KeyError")
    ELSE Done(<<SummaryEntry(num, filename, line)>>,
              <<Printed("flagged", "", filename, num,
                        colorize_line(line, <<Highlighter(line, cfg.tbl.summary_color)>>))>>,
              NoError)

\* the two branches of check_one_file for a chopped line
ScanChopped(cfg, filename, num, line, is_printed, verdict) ==
    IF verdict = "plain" THEN PlainLine(cfg, filename, num, line, is_printed)
    ELSE IF verdict = "flagged" THEN FlaggedLine(cfg, filename, num, line, is_printed)
    ELSE GetFails(<<>>, <<>>, verdict)

\* the body of the loop of check_one_file for line number num: the entries
\* it adds to the summary, what it prints, and the exception it raises
ScanLine(cfg, filename, num, line, is_printed) ==
    IF ~Known(cfg, "do_not_print") THEN GetFails(<<>>, <<>>, "do_not_print")
    ELSE IF Discarded(cfg, line) THEN Done(<<>>, <<>>, NoError)
    ELSE IF ~Known(cfg, "keep_timetags") THEN GetFails(<<>>, <<>>, "keep_timetags")
    ELSE ScanChopped(cfg, filename, num, Chop(cfg, line), is_printed,
                     Verdict(cfg, Chop(cfg, line)))

\* what a loop has done after one more step
AndThen(acc, step) ==
    Done(acc.value \o step.value, acc.out \o step.out, step.err)

RECURSIVE CheckLines(_, _, _, _, _, _)
\* the loop of check_one_file from line number num on
CheckLines(cfg, filename, lines, num, is_printed, acc) ==
    IF num > Len(lines) \/ acc.err # NoError THEN acc
    ELSE CheckLines(cfg, filename, lines, num + 1, is_printed,
                    AndThen(acc, ScanLine(cfg, filename, num, lines[num], is_printed)))

\* check_one_file(config, filename, text, is_printed): the summary returned,
\* what was printed, and the exception that stopped it
check_one_file(cfg, filename, text, is_printed) ==
    IF ~Known(cfg, "summary_patterns") THEN GetFails(<<>>, <<>>, "summary_patterns")
    ELSE CheckLines(cfg, filename, SplitLines(text), 1, is_printed,
                    Done(<<>>, <<>>, NoError))

---------------------------------------------------------------------------
(* The files of the model: log archives and configuration files.           *)

Line(timetag, rest) == timetag \o rest \o <<"\n">>

\* the archives that may be present, each as its list of members
ArchiveFiles ==
    { <<"l","o","g","s","_","0",".","z","i","p">>, <<"l","o","g","s","_","1",".","z","i","p">>, <<"l","o","g","s","_","2",".","z","i","p">>, <<"l","o","g","s","_","3",".","z","i","p">>, <<"o","l","d",".","z","i","p">>,
      <<"a","/","l","o","g","s",".","z","i","p">>, <<"a","-","b","/","l","o","g","s",".","z","i","p">> }

ZipContent(path) ==
    CASE path = <<"l","o","g","s","_","0",".","z","i","p">> -> <<>>
      [] path = <<"l","o","g","s","_","1",".","z","i","p">> ->
            << [filename |-> <<"b","u","i","l","d","/","1","1","_","p","o","s","t",".","t","x","t">>,
                text |-> Line(Timetag("4"), <<" ","W","a","r","n","i","n","g",":"," ","c","a","c","h","e"," ","n","o","t"," ","s","a","v","e","d">>)],
               [filename |-> <<"b","u","i","l","d","/","2","_","t","e","s","t",".","t","x","t">>,
                text |-> Line(Timetag("4"), <<" ","t","e","s","t","s"," ","P","A","S","S","E","D">>)
                         \o Line(Timetag("4"), <<" ","E","r","r","o","r",":"," ","1"," ","t","e","s","t"," ","F","A","I","L","E","D">>)],
               [filename |-> <<"1","_","b","u","i","l","d",".","t","x","t">>,
                text |-> Line(Timetag("4"), <<" "," "," ","r","e","p","o","s","i","t","o","r","y",":"," ","o","/","r">>)
                         \o Line(Timetag("4"), <<" ","r","e","m","o","t","e",":"," ","C","o","u","n","t","i","n","g"," ","o","b","j","e","c","t","s",":"," ","1"," ","e","r","r","o","r">>)
                         \o Line(Timetag("4"), <<" ","P","r","o","c","e","s","s"," ","c","o","m","p","l","e","t","e","d"," ","w","i","t","h"," ","e","x","i","t"," ","c","o","d","e"," ","1",".">>)] >>
      [] path = <<"l","o","g","s","_","2",".","z","i","p">> ->
            << [filename |-> <<"1","_","l","i","n","t",".","t","x","t">>,
                text |-> Line(Timetag("5"), <<" ","f","a","i","l","_","c","i","_","i","f","_","e","r","r","o","r",":"," ","f","a","l","s","e">>)
                         \o Line(Timetag("5"), <<" ","l","i","n","t"," ","O","K">>)],
               [filename |-> <<"l","i","n","t","/">>, text |-> <<>>],
               [filename |-> <<"l","i","n","t","/","1","_","r","u","n",".","t","x","t">>,
                text |-> Line(Timetag("5"), <<" ","l","i","n","t"," ","O","K">>)] >>
      [] path = <<"l","o","g","s","_","3",".","z","i","p">> ->
            << [filename |-> <<"d","o","c","s","/","1","_","s","e","t","u","p",".","t","x","t">>,
                text |-> Line(Timetag("6"), <<" ","w","a","r","n","i","n","g",":"," ","n","o"," ","c","a","c","h","e">>)] >>
      [] path = <<"o","l","d",".","z","i","p">> ->
            << [filename |-> <<"2","_","b","u","i","l","d",".","t","x","t">>,
                text |-> Line(Timetag("6"), <<" ","F","A","I","L","_","C","I","_","I","F","_","E","R","R","O","R",":"," ","F","A","L","S","E">>)
                         \o Line(Timetag("6"), <<" "," "," ","r","e","p","o","s","i","t","o","r","y",":"," ","x","/","y">>)] >>
      [] path \in { <<"a","/","l","o","g","s",".","z","i","p">>, <<"a","-","b","/","l","o","g","s",".","z","i","p">> } ->
            << [filename |-> <<"1","_","b","u","i","l","d",".","t","x","t">>,
                text |-> Line(Timetag("6"), <<" "," "," ","r","e","p","o","s","i","t","o","r","y",":"," ","o","/","r">>)] >>

\* the [tool.logview] tables of the configuration files
TomlFiles ==
    { <<"s","h","o","w",".","t","o","m","l">>, <<"n","o","k","e","y",".","t","o","m","l">>, <<"b","a","d","p","h","r","a","s","e",".","t","o","m","l">>, <<"b","a","d","c","o","l","o","r",".","t","o","m","l">> }

TomlTable(path) ==
    CASE path = <<"s","h","o","w",".","t","o","m","l">> ->
            [default_config EXCEPT
                !.repository = <<"o","/","r">>,
                !.contains_member = <<"n","o","m","a","t","c","h","*">>,
                !.do_not_scan = << <<"b","u","i","l","d","/","1","1","*">> >>,
                !.do_not_show = << <<"*",".","t","x","t">> >>,
                !.show_at_end = << <<"b","u","i","l","d","/","*">>, <<"1","_","b","u","i","l","d",".","t","x","t">> >>,
                !.keep_timetags = TRUE,
                !.summary_color = <<"N","O","N","E">>]
      [] path = <<"n","o","k","e","y",".","t","o","m","l">> ->
            [k \in DOMAIN default_config \ {"show_at_end"} |->
                [default_config EXCEPT !.do_not_scan = <<>>][k]]
      [] path = <<"b","a","d","p","h","r","a","s","e",".","t","o","m","l">> ->
            [default_config EXCEPT
                !.phrases = << << <<" ","O","K">>, <<"G","R","E","E","N">> >>, << <<"F","A","I","L","E","D">>, <<"P","U","R","P","L","E">> >> >>]
      [] path = <<"b","a","d","c","o","l","o","r",".","t","o","m","l">> ->
            [default_config EXCEPT !.summary_color = <<"P","U","R","P","L","E">>]

\* Path(file).name: the final component, empty for a root
NameOf(parts) ==
    IF parts = <<>> \/ parts[Len(parts)][1] = "/" THEN <<>> ELSE parts[Len(parts)]

\* the suffix of a name: from its last dot on, unless that dot is the first
\* or the last character
SuffixOfName(name) ==
    IF 1 < RFind(name, <<".">>) /\ RFind(name, <<".">>) < Len(name)
    THEN SubSeq(name, RFind(name, <<".">>), Len(name))
    ELSE <<>>

\* Path(file).suffix
Suffix(path) == SuffixOfName(NameOf(Parts(path)))

\* Config(path) for a file: read_text, tomllib.loads, then the phrases.  An
\* archive is no UTF-8 TOML text: a ValueError
ConfigOfFile(path, present) ==
    IF path \notin present \cup TomlFiles THEN Done(NoConfig, <<>>, "FileNotFoundError")
    ELSE IF path \notin TomlFiles THEN Done(NoConfig, <<>>, "ValueError")
    ELSE ConfigOfTable(path, TomlTable(path))

---------------------------------------------------------------------------
(* identify_repository and locate_log_file.                                *)

NoRepository == [found |-> FALSE, name |-> <<>>]

\* what re.search(r"^.*  repository: (.*)$", line) gives when the last
\* "  repository: " of the line is at position at, 0 for no match: the
\* group is the rest of the line
RepositoryAt(line, at) ==
    IF at = 0 THEN NoRepository
    ELSE [found |-> TRUE, name |-> SliceFrom(line, at + 13)]

\* the search in each line of a text
RepositoryLines(lines) ==
    [i \in 1..Len(lines) |-> RepositoryAt(lines[i], RFind(lines[i], <<" "," ","r","e","p","o","s","i","t","o","r","y",":"," ">>))]

\* the first match of a list of searches, NoRepository when none matched
FirstFound(found) ==
    IF \E i \in 1..Len(found) : found[i].found
    THEN found[LeastFrom({i \in 1..Len(found) : found[i].found}, 1)]
    ELSE NoRepository

\* the loops of identify_repository: the first matching line of the first
\* member that has one
RepositoryInMembers(zip, members) ==
    FirstFound([i \in 1..Len(members) |->
                    FirstFound(RepositoryLines(SplitLines(ZipRead(zip, members[i]))))])

\* identify_repository(matcher, zip); found is FALSE for None
identify_repository(m, zip) ==
    RepositoryInMembers(zip, select(m, << <<"*",".","t","x","t">> >>))

\* the directories of the model's file system: the current directory "."
\* and every directory above one of the files present
Folders(present) ==
    { <<".">> } \cup UNION {{JoinWith(SubSeq(Parts(f), 1, k), <<"/">>) :
                               k \in 1..(Len(Parts(f)) - 1)} : f \in present}

RECURSIVE GlobMatch(_, _)
\* whether the selectors that pathlib makes of pattern_parts lead from the
\* directory searched to the path of these parts: "**" passes any number of
\* directories, any other part is matched against one name
GlobMatch(parts, pattern_parts) ==
    IF pattern_parts = <<>> THEN parts = <<>>
    ELSE \E k \in (IF pattern_parts[1] = <<"*", "*">> THEN 0..Len(parts)
                   ELSE {j \in 1..Min(1, Len(parts)) :
                            fnmatch(parts[1], pattern_parts[1])}) :
            GlobMatch(SubSeq(parts, k + 1, Len(parts)), Tail(pattern_parts))

\* Path(log_file_directory).glob(archive_glob) when the current directory
\* holds the files present and the configuration files: the set of paths it
\* yields, each starting with the parts of log_file_directory, or the
\* exception it raises.  A log_file_directory that is no directory yields
\* nothing.  An empty pattern is a ValueError, a pattern with a root is a
\* NotImplementedError, a pattern without parts an IndexError ("." ) or an
\* AttributeError ("./"), a part that holds "**" and more a ValueError.  A
\* pattern that ends with a slash or with "**" yields directories only.
\* The directories of the model are relative, and neither they nor the
\* patterns have a ".." part.
Glob(present, log_file_directory, archive_glob) ==
    IF archive_glob = <<>> THEN Done({}, <<>>, "ValueError")
    ELSE IF LeadingSlashes(archive_glob) > 0 THEN Done({}, <<>>, "NotImplementedError")
    ELSE IF Parts(archive_glob) = <<>>
    THEN Done({}, <<>>, IF archive_glob[Len(archive_glob)] = "/"
                        THEN "AttributeError" ELSE "IndexError")
    ELSE IF \E i \in 1..Len(Parts(archive_glob)) :
                /\ Contains(Parts(archive_glob)[i], <<"*", "*">>)
                /\ Parts(archive_glob)[i] # <<"*", "*">>
    THEN Done({}, <<>>, "ValueError")
    ELSE Done({f \in present \cup TomlFiles \cup Folders(present) :
                  /\ Len(Parts(log_file_directory)) <= Len(Parts(f))
                  /\ SubSeq(Parts(f), 1, Len(Parts(log_file_directory)))
                        = Parts(log_file_directory)
                  /\ GlobMatch(SubSeq(Parts(f), Len(Parts(log_file_directory)) + 1,
                                      Len(Parts(f))),
                               Parts(archive_glob))
                  /\ \/ f \in Folders(present)
                     \/ /\ archive_glob[Len(archive_glob)] # "/"
                        /\ Parts(archive_glob)[Len(Parts(archive_glob))] # <<"*", "*">>},
              <<>>, NoError)

\* a < b for the parts of two Path objects, which compare as tuples of str
PartsLess(a, b) ==
    IF FirstDifference(a, b) = 0 THEN Len(a) < Len(b)
    ELSE StrLess(a[FirstDifference(a, b)], b[FirstDifference(a, b)])

\* (t1, p1) < (t2, p2) for (timestamp, Path) tuples
TupleLess(a, b) ==
    IF a[1] = b[1] THEN PartsLess(Parts(a[2]), Parts(b[2])) ELSE StrLess(a[1], b[1])

\* a variant of the choice without reverse=True: the oldest entry
Newest_not_reversed(timestamps) ==
    timestamps[CHOOSE k \in 1..Len(timestamps) :
                  \A j \in 1..Len(timestamps) :
                      ~TupleLess(timestamps[j], timestamps[k])][2]

\* sorted(timestamps, reverse=True)[0][1]
Newest(timestamps) ==
    timestamps[CHOOSE k \in 1..Len(timestamps) :
                  \A j \in 1..Len(timestamps) :
                      ~TupleLess(timestamps[k], timestamps[j])][2]

\* an archive is kept when its repository is the configured one:
\* repository == config.get("repository"), which None never is
ByRepository(cfg, m, zip) ==
    identify_repository(m, zip) = [found |-> TRUE, name |-> cfg.tbl.repository]

\* what the body of the loop of locate_log_file appends to timestamps: an
\* entry when contains_member selects a member, and an entry when the
\* repository is the configured one
Entries(cfg, file, m, zip) ==
    (IF select(m, <<cfg.tbl.contains_member>>) # <<>> THEN << <<m.timestamp, file>> >> ELSE <<>>)
    \o (IF ByRepository(cfg, m, zip) THEN << <<m.timestamp, file>> >> ELSE <<>>)

\* the body of the loop of locate_log_file, given the MemberFilter
LocateEntry(cfg, file, m, zip) ==
    IF m.err # NoError THEN Done(<<>>, <<>>, m.err)
    ELSE IF ~Known(cfg, "contains_member") THEN GetFails(<<>>, <<>>, "contains_member")
    ELSE IF ~Known(cfg, "repository") THEN GetFails(<<>>, <<>>, "repository")
    ELSE Done(Entries(cfg, file, m, zip), <<>>, NoError)

\* the body of the loop for one path of the glob: ZipFile(file) of a
\* directory is an IsADirectoryError, of a file that is no archive a
\* BadZipFile
LocateFile(cfg, present, file) ==
    IF file \in Folders(present) THEN Done(<<>>, <<>>, "IsADirectoryError")
    ELSE IF file \notin present THEN Done(<<>>, <<>>, "BadZipFile")
    ELSE LocateEntry(cfg, file, MemberFilter(ZipContent(file)), ZipContent(file))

RECURSIVE LocateLoop(_, _, _, _)
\* the loop of locate_log_file over the files the glob gave, in its order
LocateLoop(cfg, present, files, acc) ==
    IF files = <<>> \/ acc.err # NoError THEN acc
    ELSE LocateLoop(cfg, present, Tail(files),
                    AndThen(acc, LocateFile(cfg, present, files[1])))

NotFound == [found |-> FALSE, path |-> <<>>]

\* the end of locate_log_file: the newest of timestamps, None without any
Located(looped) ==
    IF looped.err # NoError THEN Done(NotFound, looped.out, looped.err)
    ELSE IF looped.value # <<>>
    THEN Done([found |-> TRUE, path |-> Newest(looped.value)], <<>>, NoError)
    ELSE Done(NotFound, <<>>, NoError)

\* locate_log_file(config) when the glob, if it raises nothing, yields files
\* in this order: the
\* path returned (found is FALSE for None), the diagnostics, the exception
locate_log_file(cfg, present, files) ==
    IF ~Known(cfg, "log_file_directory")
    THEN GetFails(NotFound, <<>>, "log_file_directory")
    ELSE IF ~Known(cfg, "archives") THEN GetFails(NotFound, <<>>, "archives")
    ELSE IF Glob(present, cfg.tbl.log_file_directory, cfg.tbl.archives).err # NoError
    THEN Done(NotFound, <<>>,
              Glob(present, cfg.tbl.log_file_directory, cfg.tbl.archives).err)
    ELSE Located(LocateLoop(cfg, present, files, Done(<<>>, <<>>, NoError)))

RECURSIVE Orders(_)
\* the orders in which a directory scan may yield the files of a set
Orders(S) ==
    IF S = {} THEN {<<>>}
    ELSE UNION {{<<x>> \o rest : rest \in Orders(S \ {x})} : x \in S}

---------------------------------------------------------------------------
(* show_action_log, one step at a time: opening the archive, one member of *)
(* the main pass, the summary, one member of the end section, the footer.  *)

\* show_action_log stopped by an exception before the main pass
Stopped(printed, err) ==
    [matcher |-> NoMatcher, not_scanned |-> {}, not_printed |-> {},
     out |-> printed, err |-> err]

\* lines 258-259: a repository that is neither None nor empty is printed
ShownRepository(path, repository) ==
    IF repository.found /\ repository.name # <<>>
    THEN <<Printed("repository", "", path, 0, repository.name)>>
    ELSE <<>>

\* lines 261-262: the members that are not scanned and those not printed
Selected(cfg, m, printed) ==
    IF ~Known(cfg, "do_not_scan")
    THEN Stopped(Append(printed, UnknownKey("do_not_scan")), "KeyError")
    ELSE IF ~Known(cfg, "do_not_show")
    THEN Stopped(Append(printed, UnknownKey("do_not_show")), "KeyError")
    ELSE [matcher |-> m,
          not_scanned |-> ToSet(select(m, cfg.tbl.do_not_scan)),
          not_printed |-> ToSet(select(m, cfg.tbl.do_not_show)),
          out |-> printed,
          err |-> NoError]

\* lines 256-262, given the MemberFilter
OpenedWith(cfg, path, zip, m) ==
    IF m.err # NoError THEN Stopped(<<Printed("path", "", path, 0, <<>>)>>, m.err)
    ELSE Selected(cfg, m, <<Printed("path", "", path, 0, <<>>)>>
                          \o ShownRepository(path, identify_repository(m, zip)))

\* lines 253-262: print the path, open the archive, build the filter, print
\* the repository, and select the members not scanned and not printed
show_open(cfg, present, path) ==
    IF path \notin present
    THEN Stopped(<<Printed("path", "", path, 0, <<>>)>>,
                 IF path \in TomlFiles THEN "BadZipFile" ELSE "FileNotFoundError")
    ELSE OpenedWith(cfg, path, ZipContent(path), MemberFilter(ZipContent(path)))

\* lines 267-275 for a member that is scanned, given what check_one_file did
Scanned(filename1, is_printed, e) ==
    Done(IF e.err = NoError THEN e.value ELSE <<>>,
         (IF is_printed THEN <<Printed("name", "", filename1, 0, <<>>)>> ELSE <<>>)
         \o e.out,
         e.err)

\* a variant of the main pass that scans only the members it prints
scan_member_printed_only(cfg, zip, filename1, skipped, hidden) ==
    IF filename1 \in skipped \cup hidden THEN Done(<<>>, <<>>, NoError)
    ELSE Scanned(filename1, TRUE,
                 check_one_file(cfg, filename1, ZipRead(zip, filename1), TRUE))

\* lines 264-275: one member of the main pass; what it adds to the summary
\* and what it prints
scan_member(cfg, zip, filename1, skipped, hidden) ==
    IF filename1 \in skipped THEN Done(<<>>, <<>>, NoError)
    ELSE Scanned(filename1, filename1 \notin hidden,
                 check_one_file(cfg, filename1, ZipRead(zip, filename1),
                                filename1 \notin hidden))

\* lines 283-286: a Highlighter in the summary color for each summary pattern
ErrorPhrases(cfg) ==
    [i \in 1..Len(cfg.tbl.summary_patterns) |->
        Highlighter(cfg.tbl.summary_patterns[i], cfg.tbl.summary_color)]

\* lines 287-289: the summary lines, each with the summary patterns colored
SummaryLines(lines, error_phrases) ==
    [i \in 1..Len(lines) |->
        Printed("summary_line", "", <<>>, 0, colorize_line(lines[i], error_phrases))]

\* lines 280-289, given the first key that Config.get does not find
Rendered(cfg, lines, unknown) ==
    IF unknown \in {"summary_title", "summary_color"}
    THEN GetFails(<<>>, <<>>, unknown)
    ELSE IF unknown # ""
    THEN GetFails(<<>>, <<Printed("summary_title", "", <<>>, 0, cfg.tbl.summary_title)>>,
                  unknown)
    ELSE IF cfg.tbl.summary_patterns # <<>> /\ ~IsColorName(cfg.tbl.summary_color)
    THEN Done(<<>>, <<Printed("summary_title", "", <<>>, 0, cfg.tbl.summary_title)>>,
              "KeyError")
    ELSE Done(<<>>,
              <<Printed("summary_title", "", <<>>, 0, cfg.tbl.summary_title)>>
              \o SummaryLines(lines, ErrorPhrases(cfg)),
              NoError)

\* lines 279-291: the summary, or the note that there is none
render_summary(cfg, lines) ==
    IF lines = <<>>
    THEN Done(<<>>, <<Printed("nothing_found", "", <<>>, 0, <<>>)>>, NoError)
    ELSE Rendered(cfg, lines,
                  FirstUnknown(cfg, <<"summary_title", "summary_color",
                                      "summary_patterns">>))

\* a variant of the end section that prints its heading without the test
\* of line 296
EndSectionOf_always(show_members_again) ==
    Done(show_members_again, <<Printed("end_heading", "", <<>>, 0, <<>>)>>, NoError)

\* lines 296-300: the heading of the end section when members are shown again
EndSectionOf(show_members_again) ==
    Done(show_members_again,
         IF show_members_again # <<>>
         THEN <<Printed("end_heading", "", <<>>, 0, <<>>)>>
         ELSE <<>>,
         NoError)

\* lines 295-300: the members shown again, and the heading when there are any
end_section(cfg, m) ==
    IF ~Known(cfg, "show_at_end") THEN GetFails(<<>>, <<>>, "show_at_end")
    ELSE EndSectionOf(select(m, cfg.tbl.show_at_end))

\* the summary, and the end section when the summary did not raise
SummaryThenEnd(s, e) ==
    IF s.err # NoError THEN s ELSE Done(e.value, s.out \o e.out, e.err)

\* lines 277-300
summary_and_end(cfg, m, lines) ==
    SummaryThenEnd(render_summary(cfg, lines), end_section(cfg, m))

\* lines 302-306, given what check_one_file did: the summary it returns is
\* dropped
ShownAgain(filename2, e) ==
    Done(<<>>, <<Printed("end_name", "", filename2, 0, <<>>)>> \o e.out, e.err)

\* lines 302-306: one member of the end section
show_again(cfg, zip, filename2) ==
    ShownAgain(filename2, check_one_file(cfg, filename2, ZipRead(zip, filename2), TRUE))

ShowOpenTo(r) ==
    /\ matcher' = r.matcher
    /\ not_scanned' = r.not_scanned
    /\ not_printed' = r.not_printed
    /\ out' = out \o r.out
    /\ raised' = r.err
    /\ pc' = IF r.err = NoError THEN "scan" ELSE "raised"

ShowOpen ==
    /\ pc = "show"
    /\ ShowOpenTo(show_open(config, dir, logfile))
    /\ summary' = <<>>
    /\ mi' = 1
    /\ UNCHANGED <<argv, dir, config, idx, logfile, input, result>>

ScanMemberTo(r) ==
    /\ summary' = summary \o r.value
    /\ out' = out \o r.out
    /\ raised' = r.err
    /\ pc' = IF r.err = NoError THEN "scan" ELSE "raised"

ScanMember ==
    /\ pc = "scan"
    /\ mi <= Len(matcher.ordered_filenames)
    /\ ScanMemberTo(scan_member(config, ZipContent(logfile),
                                matcher.ordered_filenames[mi], not_scanned, not_printed))
    /\ mi' = mi + 1
    /\ UNCHANGED <<argv, dir, config, idx, logfile, matcher, not_scanned,
                   not_printed, input, result>>

RenderSummaryTo(r) ==
    /\ out' = out \o r.out
    /\ raised' = r.err
    /\ pc' = IF r.err # NoError THEN "raised"
             ELSE IF r.value # <<>> THEN "at_end"
             ELSE "footer"

RenderSummary ==
    /\ pc = "scan"
    /\ mi > Len(matcher.ordered_filenames)
    /\ RenderSummaryTo(summary_and_end(config, matcher, summary))
    /\ mi' = 1
    /\ UNCHANGED <<argv, dir, config, idx, logfile, matcher, not_scanned,
                   not_printed, summary, input, result>>

ShowAgainTo(r, last) ==
    /\ out' = out \o r.out
    /\ raised' = r.err
    /\ pc' = IF r.err # NoError THEN "raised"
             ELSE IF ~last THEN "at_end"
             ELSE "footer"

\* one member of the loop of line 301 over the selection again
ShowAgainOf(again) ==
    ShowAgainTo(show_again(config, ZipContent(logfile), again[mi]), mi >= Len(again))

ShowAgainMember ==
    /\ pc = "at_end"
    /\ ShowAgainOf(select(matcher, config.tbl.show_at_end))
    /\ mi' = mi + 1
    /\ UNCHANGED <<argv, dir, config, idx, logfile, matcher, not_scanned,
                   not_printed, summary, input, result>>

\* lines 308-309, and the return to main
ShowFooter ==
    /\ pc = "footer"
    /\ out' = Append(out, Printed("footer", "", logfile, 0, matcher.timestamp))
    /\ pc' = IF argv.auto THEN "done" ELSE "loop"
    /\ idx' = IF argv.auto THEN idx ELSE idx + 1
    /\ UNCHANGED <<argv, dir, config, logfile, matcher, not_scanned, not_printed,
                   mi, summary, raised, input, result>>

---------------------------------------------------------------------------
(* main.                                                                   *)

StartTo(c) ==
    /\ config' = c.value
    /\ raised' = c.err
    /\ out' = out \o c.out
    /\ pc' = IF c.err # NoError THEN "raised"
             ELSE IF argv.auto THEN "auto"
             ELSE "loop"

\* lines 401-402: the arguments are parsed, config = Config(None)
Start ==
    /\ pc = "main"
    /\ StartTo(ConfigOfTable(<<>>, default_config))
    /\ idx' = 1
    /\ UNCHANGED <<argv, dir, logfile, matcher, not_scanned, not_printed, mi,
                   summary, input, result>>

\* where main is after lines 403-418: the configuration, the log file to
\* show, what was printed, the exception, and the next position
AutoDone(cfg, path, printed, err, next) ==
    [cfg |-> cfg, logfile |-> path, out |-> printed, err |-> err, pc |-> next]

\* lines 412-416: the report when no log file meets the criteria, up to
\* the first key that Config.get does not find
not_found(cfg) ==
    IF FirstUnknown(cfg, <<"archives", "repository", "contains_member">>) # ""
    THEN GetFails(<<>>, <<Printed("not_found", "", <<>>, 0, <<>>)>>,
                  FirstUnknown(cfg, <<"archives", "repository", "contains_member">>))
    ELSE Done(<<>>, <<Printed("not_found", "", <<>>, 0, <<>>)>>, NoError)

\* lines 411-416, given the report
AutoNotFound(cfg, first, n) ==
    AutoDone(cfg, <<>>, <<Printed("read_config", "", first, 0, <<>>)>> \o n.out,
             n.err, IF n.err = NoError THEN "done" ELSE "raised")

\* lines 409-418, given what locate_log_file did
AutoLocated(cfg, first, l) ==
    IF l.err # NoError
    THEN AutoDone(cfg, <<>>, <<Printed("read_config", "", first, 0, <<>>)>> \o l.out,
                  l.err, "raised")
    ELSE IF ~l.value.found THEN AutoNotFound(cfg, first, not_found(cfg))
    ELSE AutoDone(cfg, l.value.path,
                  <<Printed("read_config", "", first, 0, <<>>),
                    Printed("log_file_directory", "", <<>>, 0, <<>>)>>,
                  NoError, "show")

\* lines 407-418, given what Config(Path(args.files[0])) did
AutoConfigured(c, first, present, files) ==
    IF c.err # NoError THEN AutoDone(c.value, <<>>, c.out, c.err, "raised")
    ELSE AutoLocated(c.value, first, locate_log_file(c.value, present, files))

\* lines 405-419 up to the call of show_action_log, when the directory scan
\* yields the archives in the order files
auto_locate(first, present, files) ==
    AutoConfigured(ConfigOfFile(first, present), first, present, files)

\* the files that the glob of a configuration yields
GlobOf(c, present) ==
    IF c.err = NoError /\ Known(c.value, "log_file_directory")
                       /\ Known(c.value, "archives")
    THEN Glob(present, c.value.tbl.log_file_directory, c.value.tbl.archives).value
    ELSE {}

\* the files the glob of the configuration in argv's first file yields
AutoGlob == GlobOf(ConfigOfFile(argv.files[1], dir), dir)

AutoLocateTo(r) ==
    /\ config' = r.cfg
    /\ logfile' = r.logfile
    /\ out' = out \o r.out
    /\ raised' = r.err
    /\ pc' = r.pc

AutoLocate ==
    /\ pc = "auto"
    /\ \E files \in Orders(AutoGlob) :
          AutoLocateTo(auto_locate(argv.files[1], dir, files))
    /\ UNCHANGED <<argv, dir, idx, matcher, not_scanned, not_printed, mi, summary,
                   input, result>>

\* a variant of lines 424-425 in which only the first .toml argument
\* replaces the configuration
LoopConfigTo_first(c, file) ==
    /\ config' = IF config.path = <<>> THEN c.value ELSE config
    /\ raised' = c.err
    /\ out' = IF c.err = NoError
              THEN Append(out, Printed("read_config", "", file, 0, <<>>))
              ELSE out \o c.out
    /\ pc' = IF c.err = NoError THEN "loop" ELSE "raised"

LoopConfigTo(c, file) ==
    /\ config' = c.value
    /\ raised' = c.err
    /\ out' = IF c.err = NoError
              THEN Append(out, Printed("read_config", "", file, 0, <<>>))
              ELSE out \o c.out
    /\ pc' = IF c.err = NoError THEN "loop" ELSE "raised"

\* lines 423-426: a .toml argument replaces the configuration
LoopConfig ==
    /\ pc = "loop"
    /\ idx <= Len(argv.files)
    /\ Suffix(argv.files[idx]) = <<".","t","o","m","l">>
    /\ LoopConfigTo(ConfigOfFile(argv.files[idx], dir), argv.files[idx])
    /\ idx' = idx + 1
    /\ UNCHANGED <<argv, dir, logfile, matcher, not_scanned, not_printed, mi,
                   summary, input, result>>

\* lines 427-428: any other argument is shown with the current configuration
LoopShow ==
    /\ pc = "loop"
    /\ idx <= Len(argv.files)
    /\ Suffix(argv.files[idx]) # <<".","t","o","m","l">>
    /\ logfile' = argv.files[idx]
    /\ out' = Append(out, Printed("banner", "", <<>>, 0, <<>>))
    /\ pc' = "show"
    /\ UNCHANGED <<argv, dir, config, idx, matcher, not_scanned, not_printed, mi,
                   summary, raised, input, result>>

\* the loop over args.files is over
LoopEnd ==
    /\ pc = "loop"
    /\ idx > Len(argv.files)
    /\ pc' = "done"
    /\ UNCHANGED <<argv, dir, config, idx, logfile, matcher, not_scanned,
                   not_printed, mi, summary, out, raised, input, result>>

MaxArgs == 3

\* the file arguments of the command line
FileArgs ==
    TomlFiles \cup { <<"l","o","g","s","_","0",".","z","i","p">>, <<"l","o","g","s","_","1",".","z","i","p">>, <<"l","o","g","s","_","2",".","z","i","p">>, <<"l","o","g","s","_","9",".","z","i","p">> }

\* the archives present when the files are named on the command line
PresentArchives == { <<"l","o","g","s","_","0",".","z","i","p">>, <<"l","o","g","s","_","1",".","z","i","p">>, <<"l","o","g","s","_","2",".","z","i","p">> }

\* the directories that --auto-locate-logfile is tried on
Directories ==
    { {}, { <<"l","o","g","s","_","1",".","z","i","p">>, <<"l","o","g","s","_","2",".","z","i","p">> }, { <<"l","o","g","s","_","1",".","z","i","p">>, <<"l","o","g","s","_","3",".","z","i","p">>, <<"o","l","d",".","z","i","p">> } }

Init ==
    /\ argv \in {[auto |-> a, files |-> f] :
                    a \in BOOLEAN, f \in ListsOf(FileArgs, MaxArgs) \ {<<>>}}
    /\ dir \in IF argv.auto THEN Directories ELSE {PresentArchives}
    /\ config = NoConfig
    /\ pc = "main"
    /\ idx = 0
    /\ logfile = <<>>
    /\ matcher = NoMatcher
    /\ not_scanned = {}
    /\ not_printed = {}
    /\ mi = 0
    /\ summary = <<>>
    /\ out = <<>>
    /\ raised = NoError
    /\ input = [zip |-> <<>>]
    /\ result = NoResult

Next ==
    \/ Start
    \/ AutoLocate
    \/ LoopConfig
    \/ LoopShow
    \/ LoopEnd
    \/ ShowOpen
    \/ ScanMember
    \/ RenderSummary
    \/ ShowAgainMember
    \/ ShowFooter

Spec == Init /\ [][Next]_vars

---------------------------------------------------------------------------
(* check_one_file on its own: a configuration and a text are drawn, the    *)
(* Config object is built, and the text is scanned.                        *)

MaxLines == 2

\* log lines without their time tag
LineBodies ==
    { <<" ","t","e","s","t","s"," ","P","A","S","S","E","D">>,
      <<" ","E","r","r","o","r",":"," ","1"," ","t","e","s","t"," ","F","A","I","L","E","D">>,
      <<" ","f","a","i","l","_","c","i","_","i","f","_","e","r","r","o","r",":"," ","f","a","l","s","e">>,
      <<" ","F","A","I","L","_","C","I","_","I","F","_","E","R","R","O","R",":"," ","F","A","L","S","E">>,
      <<" ","r","e","m","o","t","e",":"," ","C","o","u","n","t","i","n","g"," ","o","b","j","e","c","t","s",":"," ","1"," ","e","r","r","o","r">> }

\* a text of these line bodies, each behind a time tag
TextOf(bodies) ==
    IF bodies = <<>> THEN <<>>
    ELSE JoinWith([i \in 1..Len(bodies) |-> Timetag("4") \o bodies[i]], <<"\n">>) \o <<"\n">>

\* the tables drawn: the last of the summary patterns is found in the time
\* tag only, the last of the summary colors is no color name
ScanTables ==
    {[default_config EXCEPT !.summary_patterns = p, !.summary_exemptions = e,
                            !.summary_color = c, !.keep_timetags = k] :
        p \in { << <<"w","a","r","n","i","n","g">>, <<"e","r","r","o","r">> >>, << <<"F","A","I","L","E","D">> >>, << <<"z">> >> },
        e \in { <<>>, << <<"f","a","i","l","_","c","i","_","i","f","_","e","r","r","o","r",":"," ","f","a","l","s","e">> >> },
        c \in { <<"R","E","D">>, <<"P","U","R","P","L","E">> },
        k \in BOOLEAN}

InitScan ==
    /\ MainIdle
    /\ pc = "scan_new"
    /\ matcher = NoMatcher
    /\ input \in {[tbl |-> t,
                   filename |-> <<"a","/","1","_","b",".","t","x","t">>,
                   text |-> TextOf(bodies),
                   is_printed |-> ip] :
                     t \in ScanTables, ip \in BOOLEAN,
                     bodies \in ListsOf(LineBodies, MaxLines)}
    /\ result = NoResult

\* a function applied on its own has built its Config
ConfigTo(c, ready, failed) ==
    /\ config' = c.value
    /\ out' = out \o c.out
    /\ raised' = c.err
    /\ pc' = IF c.err = NoError THEN ready ELSE failed

\* config = Config(path) for a file with the table drawn
ScanConfig ==
    /\ pc = "scan_new"
    /\ ConfigTo(ConfigOfTable(<<"s","c","a","n",".","t","o","m","l">>, input.tbl), "scan_ready", "scan_raised")
    /\ UNCHANGED <<argv, dir, idx, logfile, matcher, not_scanned, not_printed, mi,
                   summary, input, result>>

\* a function applied on its own has returned or raised
ResultTo(r, done, failed) ==
    /\ result' = r
    /\ out' = out \o r.out
    /\ raised' = r.err
    /\ pc' = IF r.err = NoError THEN done ELSE failed

\* check_one_file(config, filename, text, is_printed)
ScanText ==
    /\ pc = "scan_ready"
    /\ ResultTo(check_one_file(config, input.filename, input.text, input.is_printed),
                "scan_done", "scan_raised")
    /\ UNCHANGED <<argv, dir, config, idx, logfile, matcher, not_scanned,
                   not_printed, mi, summary, input>>

NextScan == ScanConfig \/ ScanText

SpecScan == InitScan /\ [][NextScan]_vars

---------------------------------------------------------------------------
(* locate_log_file on its own: a directory and the criteria are drawn, the *)
(* Config object is built, and the directory is searched.                  *)

MaxArchives == 2

\* the tables drawn: the criteria of the search
LocateTables ==
    {[default_config EXCEPT !.contains_member = m, !.repository = r, !.archives = a,
                            !.log_file_directory = d] :
        d \in { <<>>, <<"a">> },
        m \in { <<"*",".","t","x","t">>, <<"n","o","m","a","t","c","h","*">>, <<"*","/","*">> },
        r \in { <<>>, <<"o","/","r">>, <<"x","/","y">> },
        a \in { <<"l","o","g","s","*",".","z","i","p">>, <<"*",".","z","i","p">>, <<"*","/","l","o","g","s",".","z","i","p">>, <<"*","*","/","l","o","g","s","*",".","z","i","p">>, <<>> }}

InitLocate ==
    /\ argv = [auto |-> TRUE, files |-> <<>>]
    /\ dir \in {d \in SUBSET ArchiveFiles : Cardinality(d) <= MaxArchives}
    /\ config = NoConfig
    /\ idx = 0
    /\ logfile = <<>>
    /\ not_scanned = {}
    /\ not_printed = {}
    /\ mi = 0
    /\ summary = <<>>
    /\ out = <<>>
    /\ raised = NoError
    /\ pc = "locate_new"
    /\ matcher = NoMatcher
    /\ input \in {[tbl |-> t] : t \in LocateTables}
    /\ result = NoResult

\* config = Config(path) for a file with the table drawn
LocateConfig ==
    /\ pc = "locate_new"
    /\ ConfigTo(ConfigOfTable(<<"l","o","c","a","t","e",".","t","o","m","l">>, input.tbl), "locate_ready", "locate_raised")
    /\ UNCHANGED <<argv, dir, idx, logfile, matcher, not_scanned, not_printed, mi,
                   summary, input, result>>

\* locate_log_file(config), the directory scan yielding the files in any
\* order
Locate ==
    /\ pc = "locate_ready"
    /\ \E files \in Orders(Glob(dir, config.tbl.log_file_directory,
                                   config.tbl.archives).value) :
          ResultTo(locate_log_file(config, dir, files), "locate_done", "locate_raised")
    /\ UNCHANGED <<argv, dir, config, idx, logfile, matcher, not_scanned,
                   not_printed, mi, summary, input>>

NextLocate == LocateConfig \/ Locate

SpecLocate == InitLocate /\ [][NextLocate]_vars

---------------------------------------------------------------------------
(* Properties of the member ordering and of the selection, under           *)
(* SpecFilter.                                                             *)

\* x stands somewhere before y in the list
Before(list, x, y) ==
    \E i, j \in 1..Len(list) : i < j /\ list[i] = x /\ list[j] = y

HasSlash(name) == RFind(name, <<"/">>) # 0

\* the name up to and with its last slash
DirOf(name) == SubSeq(name, 1, RFind(name, <<"/">>))

\* the name after its last slash
BaseOf(name) == SubSeq(name, RFind(name, <<"/">>) + 1, Len(name))

\* the number of digits the basename starts with
LeadingRunLength(name) == DigitRunLength(BaseOf(name), 1)

\* the basename starts with a run of 1 to 5 digits
ShortLeadingRun(name) == LeadingRunLength(name) \in 1..5

LeadingNumber(name) == ToInt(DigitRun(BaseOf(name), 1))

\* what follows the leading digit run of the basename
AfterRun(name) == SliceFrom(BaseOf(name), LeadingRunLength(name))

FilterBuilt == pc \in {"filter_ready", "filter_done"}

\* two names without a slash that differ only in their leading digit runs
DifferInLeadingRun(f, g) ==
    /\ ~HasSlash(f) /\ ~HasSlash(g)
    /\ ShortLeadingRun(f) /\ ShortLeadingRun(g)
    /\ AfterRun(f) = AfterRun(g)

\* two names in the same directory whose basenames start with short runs
SameDirectoryRuns(f, g) ==
    /\ DirOf(f) = DirOf(g)
    /\ ShortLeadingRun(f) /\ ShortLeadingRun(g)

\* neither pattern of name_key_function has a match in the name: it does not
\* start with a digit and has no digit right after a slash
NoLeadingRun(name) ==
    /\ name # <<>> => ~IsDigit(name[1])
    /\ \A k \in 1..(Len(name) - 1) : name[k] = "/" => ~IsDigit(name[k + 1])

\* C1 as stated: "file2.txt" is placed before "file11.txt" whenever the
\* archive holds both.
C1_Original ==
    FilterBuilt =>
        ( { <<"f","i","l","e","2",".","t","x","t">>, <<"f","i","l","e","1","1",".","t","x","t">> } \subseteq ToSet(matcher.ordered_filenames)
            => Before(matcher.ordered_filenames, <<"f","i","l","e","2",".","t","x","t">>, <<"f","i","l","e","1","1",".","t","x","t">>) )

\* C1 amended: the ordering is numeric only for a digit run at the start of
\* a name.  Two names without a slash that differ only in their leading
\* digit run, each run 1 to 5 digits long, stand in the order of the numbers
\* ("2_a.txt" before "11_a.txt"); two names that neither start with a digit
\* nor have a digit right after a slash stand in the order of their text,
\* so "file11.txt" stands before "file2.txt".
C1_LeadingRunOrder ==
    FilterBuilt =>
        /\ \A i, j \in 1..Len(matcher.ordered_filenames) :
              ( i < j /\ DifferInLeadingRun(matcher.ordered_filenames[i],
                                            matcher.ordered_filenames[j]) )
              => LeadingNumber(matcher.ordered_filenames[i])
                     <= LeadingNumber(matcher.ordered_filenames[j])
        /\ \A i, j \in 1..Len(matcher.ordered_filenames) :
              ( i < j /\ NoLeadingRun(matcher.ordered_filenames[i])
                      /\ NoLeadingRun(matcher.ordered_filenames[j]) )
              => StrLess(matcher.ordered_filenames[i], matcher.ordered_filenames[j])
        /\ { <<"f","i","l","e","2",".","t","x","t">>, <<"f","i","l","e","1","1",".","t","x","t">> } \subseteq ToSet(matcher.ordered_filenames)
              => Before(matcher.ordered_filenames, <<"f","i","l","e","1","1",".","t","x","t">>, <<"f","i","l","e","2",".","t","x","t">>)

\* the archive listed "11_a.txt" first and the filter moved "2_a.txt" ahead
C1_Witness ==
    /\ pc = "filter_ready"
    /\ Len(input.zip) = 2
    /\ input.zip[1].filename = <<"1","1","_","a",".","t","x","t">>
    /\ matcher.ordered_filenames = << <<"2","_","a",".","t","x","t">>, <<"1","1","_","a",".","t","x","t">> >>

\* C2 as stated: of two names in the same directory whose basenames start
\* with runs of at most 5 digits, the one with the smaller leading number is
\* placed first, whatever digits occur elsewhere in the names.
C2_SameDirectoryOrder ==
    FilterBuilt =>
        \A i, j \in 1..Len(matcher.ordered_filenames) :
            ( i < j /\ SameDirectoryRuns(matcher.ordered_filenames[i],
                                         matcher.ordered_filenames[j]) )
            => LeadingNumber(matcher.ordered_filenames[i])
                   <= LeadingNumber(matcher.ordered_filenames[j])

\* the number of path parts of a relative name in normal form
PartCount(name) == Len(SplitOn(name, "/"))

\* every part of the name matches the part of the pattern at its place
MatchesPattern(name, pattern) ==
    /\ PartCount(name) = PartCount(pattern)
    /\ \A k \in 1..PartCount(name) :
          fnmatch(SplitOn(name, "/")[k], SplitOn(pattern, "/")[k])

\* C3: select(patterns) holds a member filename exactly when some pattern
\* has as many path parts as the filename and matches it part by part; a
\* pattern without a slash selects no member whose name has a slash.
C3_SelectByParts ==
    pc = "filter_done" =>
        /\ \A f \in ToSet(matcher.ordered_filenames) :
              (f \in ToSet(result.selected))
                 <=> (\E p \in ToSet(result.patterns) : MatchesPattern(f, p))
        /\ ToSet(result.selected) \subseteq ToSet(matcher.ordered_filenames)
        /\ (\A p \in ToSet(result.patterns) : ~HasSlash(p))
              => \A f \in ToSet(result.selected) : ~HasSlash(f)

\* "*.txt" selected the top-level member and left the one in a directory
C3_Witness ==
    /\ pc = "filter_done"
    /\ result.patterns = << <<"*",".","t","x","t">> >>
    /\ matcher.ordered_filenames = << <<"2","_","a",".","t","x","t">>, <<"d","1","1","/","2",".","t","x","t">> >>
    /\ result.selected = << <<"2","_","a",".","t","x","t">> >>

---------------------------------------------------------------------------
(* Properties of the line scanner, under SpecScan, and of the locator,     *)
(* under SpecLocate.                                                       *)

\* the line as it is scanned: without its time tag unless keep_timetags
AsScanned(tbl, line) ==
    IF tbl.keep_timetags THEN line ELSE SliceFrom(line, TIMETAG_SIZE)

\* the line holds one of the strings, compared as they are
HoldsExactly(line, strings) ==
    \E i \in 1..Len(strings) : Contains(line, strings[i])

\* the line holds one of the strings, the letter case ignored
HoldsAnyCase(line, strings) ==
    \E i \in 1..Len(strings) : Contains(Lower(line), Lower(strings[i]))

\* a scanned line belongs in the summary
Flags(tbl, line) ==
    /\ HoldsAnyCase(line, tbl.summary_patterns)
    /\ ~HoldsExactly(line, tbl.summary_exemptions)

\* the numbers of the lines that are not discarded and belong in the summary
FlaggedNumbers(tbl, lines) ==
    SelectSeq([n \in 1..Len(lines) |-> n],
              LAMBDA n : /\ ~HoldsExactly(lines[n], tbl.do_not_print)
                         /\ Flags(tbl, AsScanned(tbl, lines[n])))

\* the summary entries of the lines with these numbers
EntriesOf(tbl, filename, lines, numbers) ==
    [k \in 1..Len(numbers) |->
        SummaryEntry(numbers[k], filename, AsScanned(tbl, lines[numbers[k]]))]

\* the summary that the rule gives for the lines of a member
RuleEntries(tbl, filename, lines) ==
    EntriesOf(tbl, filename, lines, FlaggedNumbers(tbl, lines))

\* C4: check_one_file returns in the summary exactly the lines that are not
\* discarded by do_not_print and that, as scanned, hold a summary pattern in
\* any letter case and no summary exemption in its exact case.
C4_SummaryByPatterns ==
    pc = "scan_done" =>
        result.value = RuleEntries(input.tbl, input.filename, SplitLines(input.text))

\* of two lines that hold "error", the one with the exemption as written is
\* left out and the one with the exemption in capitals is in the summary
C4_Witness ==
    /\ pc = "scan_done"
    /\ input.tbl.summary_patterns = << <<"w","a","r","n","i","n","g">>, <<"e","r","r","o","r">> >>
    /\ input.tbl.summary_exemptions = << <<"f","a","i","l","_","c","i","_","i","f","_","e","r","r","o","r",":"," ","f","a","l","s","e">> >>
    /\ ~input.tbl.keep_timetags
    /\ input.text = TextOf(<< <<" ","f","a","i","l","_","c","i","_","i","f","_","e","r","r","o","r",":"," ","f","a","l","s","e">>, <<" ","F","A","I","L","_","C","I","_","I","F","_","E","R","R","O","R",":"," ","F","A","L","S","E">> >>)
    /\ result.value = << SummaryEntry(2, input.filename, <<" ","F","A","I","L","_","C","I","_","I","F","_","E","R","R","O","R",":"," ","F","A","L","S","E">>) >>

\* the archive has a member that contains_member selects
HasMemberOf(tbl, m) == select(m, <<tbl.contains_member>>) # <<>>

\* the repository found is the configured one
RepositoryIs(tbl, repository) ==
    repository.found /\ repository.name = tbl.repository

\* an archive with this MemberFilter meets the criteria
MeetsWith(tbl, zip, m) ==
    HasMemberOf(tbl, m) \/ RepositoryIs(tbl, identify_repository(m, zip))

\* the archive of this name meets the criteria
Meets(tbl, file) == MeetsWith(tbl, ZipContent(file), MemberFilter(ZipContent(file)))

\* the time tag of the first line of the first ordered member
TimestampOf(file) == MemberFilter(ZipContent(file)).timestamp

\* the archives that the glob yields and that meet the criteria
Candidates(tbl, present) == 
    {f \in Glob(present, tbl.log_file_directory, tbl.archives).value : Meets(tbl, f)}

\* the value returned is None exactly without candidates, and else a
\* candidate that none of the candidates is newer than
ReturnsNewest(value, candidates) ==
    /\ ~value.found <=> candidates = {}
    /\ value.found =>
          /\ value.path \in candidates
          /\ \A g \in candidates : ~StrLess(TimestampOf(value.path), TimestampOf(g))

\* C7: when locate_log_file returns, it returns None if and only if no
\* archive that the glob yields meets the criteria, and otherwise an archive
\* that meets them and whose timestamp no other such archive exceeds.
C7_NewestMeetingCriteria ==
    pc = "locate_done" => ReturnsNewest(result.value, Candidates(input.tbl, dir))

\* of two archives that both meet the criteria the newer one is returned
C7_Witness ==
    /\ pc = "locate_done"
    /\ dir = { <<"l","o","g","s","_","1",".","z","i","p">>, <<"l","o","g","s","_","2",".","z","i","p">> }
    /\ Candidates(input.tbl, dir) = dir
    /\ result.value = [found |-> TRUE, path |-> <<"l","o","g","s","_","2",".","z","i","p">>]

---------------------------------------------------------------------------
(* Properties of the configuration, of show_action_log and of main, under  *)
(* Spec.                                                                   *)

\* the keys that the program reads through Config.get
ProgramKeys ==
    {"log_file_directory", "archives", "repository", "contains_member",
     "do_not_scan", "do_not_show", "show_at_end", "keep_timetags", "do_not_print",
     "summary_title", "summary_color", "summary_patterns", "summary_exemptions"}

\* the command line names archives only, without the auto-locate flag
OnlyDefault ==
    /\ ~argv.auto
    /\ \A i \in 1..Len(argv.files) : Suffix(argv.files[i]) # <<".","t","o","m","l">>

\* nothing printed is a diagnostic for an unknown key or an unknown color
NoDiagnostic(printed) ==
    \A i \in 1..Len(printed) : printed[i].k \notin {"unknown_key", "unknown_color"}

\* every color name of the table is a member of ColorName
ColorsKnown(tbl) ==
    /\ IsColorName(tbl.summary_color)
    /\ \A i \in 1..Len(tbl.phrases) : IsColorName(tbl.phrases[i][2])

\* C5: Config(None) loads without error a table that holds every key the
\* program reads and the phrases table, all its color names known; a run
\* that uses only the default configuration prints no diagnostic for an
\* unknown key or color and raises no KeyError.
C5_DefaultConfigComplete ==
    /\ pc \in {"auto", "loop"} /\ idx = 1 =>
          /\ raised = NoError
          /\ config.path = <<>>
          /\ ProgramKeys \cup {"phrases"} \subseteq DOMAIN config.tbl
          /\ ColorsKnown(config.tbl)
          /\ Len(config.phrases) = Len(config.tbl.phrases)
    /\ OnlyDefault => NoDiagnostic(out) /\ raised # "KeyError"

\* a run with the default configuration has shown an archive to its end,
\* a flagged line in the summary color included
C5_Witness ==
    /\ pc = "done"
    /\ argv = [auto |-> FALSE, files |-> << <<"l","o","g","s","_","1",".","z","i","p">> >>]
    /\ \E i \in 1..Len(out) : out[i].k = "flagged"
    /\ \E i \in 1..Len(out) : out[i].k = "footer"

\* C6 as stated: when an unknown key or an unknown color name stops the
\* program with a KeyError, a diagnostic was printed just before.
C6_DiagnosticBeforeFailure ==
    raised = "KeyError" =>
        /\ out # <<>>
        /\ out[Len(out)].k \in {"unknown_key", "unknown_color"}

\* the main pass is about to take the member filename1 and does not raise
MainPassStep ==
    /\ pc = "scan"
    /\ mi <= Len(matcher.ordered_filenames)
    /\ raised' = NoError

\* what the main pass does with one member
MainPassRule(filename1, skipped, hidden) ==
    /\ filename1 \in skipped => summary' = summary /\ out' = out
    /\ filename1 \notin skipped =>
          summary' = summary \o RuleEntries(config.tbl, filename1,
                                  SplitLines(ZipRead(ZipContent(logfile), filename1)))
    /\ filename1 \in hidden \ skipped => out' = out

\* C8: in the main pass a member that do_not_scan selects adds nothing to
\* the output or to the summary; any other member adds its flagged lines to
\* the summary, and prints nothing when do_not_show selects it.
C8_ScannedWhetherPrinted ==
    [][MainPassStep =>
          MainPassRule(matcher.ordered_filenames[mi],
                       ToSet(select(matcher, config.tbl.do_not_scan)),
                       ToSet(select(matcher, config.tbl.do_not_show)))]_vars

\* the first member was not printed, and a line of it is in the summary
C8_Witness ==
    /\ pc = "scan"
    /\ mi = 2
    /\ matcher.ordered_filenames[1] \in not_printed \ not_scanned
    /\ Len(summary) = 1
    /\ \A i \in 1..Len(out) : out[i].k \notin {"name", "line", "flagged"}

\* the position in what was printed where the running show_action_log began
ShowStart(printed) ==
    Greatest({i \in 1..Len(printed) : printed[i].k = "path"})

\* the positions of what the running show_action_log printed of these kinds
Positions(printed, kinds) ==
    {i \in ShowStart(printed)..Len(printed) : i >= 1 /\ printed[i].k \in kinds}

\* the end section comes after the summary, and no summary line after it
EndSectionLast(printed) ==
    /\ \A i \in Positions(printed, {"end_heading", "end_name"}) :
          \E j \in Positions(printed, {"summary_title", "nothing_found"}) : j < i
    /\ \A i \in Positions(printed, {"end_heading", "end_name"}) :
          \A j \in Positions(printed, {"summary_title", "nothing_found",
                                       "summary_line", "name"}) : j < i

\* at the footer every member of again was displayed in the end section,
\* and without such members the end section was not printed
EndSectionShows(printed, again) ==
    /\ \A k \in 1..Len(again) :
          \E i \in Positions(printed, {"end_name"}) : printed[i].f = again[k]
    /\ again = <<>> => Positions(printed, {"end_heading", "end_name"}) = {}

\* C9: the members that show_at_end selects are displayed after the
\* summary, also those that do_not_show or do_not_scan select; their
\* display adds nothing to the summary; when show_at_end selects no member
\* no end section is printed.
C9_EndSection ==
    /\ [](/\ EndSectionLast(out)
          /\ pc = "footer" =>
                EndSectionShows(out, select(matcher, config.tbl.show_at_end)))
    /\ [][pc = "at_end" => summary' = summary]_vars

\* members that were skipped or hidden in the main pass are displayed in the
\* end section, after a summary that is not empty
C9_Witness ==
    /\ pc = "footer"
    /\ summary # <<>>
    /\ \E f \in not_scanned :
          \E i \in Positions(out, {"end_name"}) : out[i].f = f
    /\ \E f \in not_printed \ not_scanned :
          \E i \in Positions(out, {"end_name"}) : out[i].f = f

\* the arguments of a list that are no .toml files
Archives(files) == SelectSeq(files, LAMBDA f : Suffix(f) # <<".","t","o","m","l">>)

\* the Config of the file at position j of the command line, the default
\* for position 0
ConfigAt(files, present, j) ==
    IF j = 0 THEN ConfigOfTable(<<>>, default_config).value
    ELSE ConfigOfFile(files[j], present).value

\* the Config of the last .toml argument before position k
ConfigBefore(files, present, k) ==
    ConfigAt(files, present,
             Greatest({j \in 1..(k - 1) : Suffix(files[j]) = <<".","t","o","m","l">>}))

\* the paths that show_action_log was called with, in their order
Shown(printed) ==
    [i \in 1..Len(SelectSeq(printed, LAMBDA e : e.k = "path")) |->
        SelectSeq(printed, LAMBDA e : e.k = "path")[i].f]

\* C10: without the auto-locate flag the arguments are taken in order; the
\* archives shown are the arguments without a .toml suffix, each with the
\* configuration of the last .toml argument before it, the default without
\* one; a .toml argument is never shown.
C10_ArgumentsInOrder ==
    ~argv.auto =>
        /\ pc = "show" =>
              /\ logfile = argv.files[idx]
              /\ Suffix(logfile) # <<".","t","o","m","l">>
              /\ config = ConfigBefore(argv.files, dir, idx)
        /\ pc \in {"loop", "show", "done"} =>
              Shown(out) = Archives(SubSeq(argv.files, 1, idx - 1))
        /\ pc \in {"scan", "at_end", "footer"} =>
              /\ Shown(out) = Archives(SubSeq(argv.files, 1, idx))
              /\ config = ConfigBefore(argv.files, dir, idx)

\* the archive named after badcolor.toml and show.toml is about to be shown
\* with the configuration of show.toml, the later of the two
C10_Witness ==
    /\ pc = "show"
    /\ argv = [auto |-> FALSE,
               files |-> << <<"b","a","d","c","o","l","o","r",".","t","o","m","l">>, <<"s","h","o","w",".","t","o","m","l">>, <<"l","o","g","s","_","1",".","z","i","p">> >>]
    /\ config.path = <<"s","h","o","w",".","t","o","m","l">>
    /\ config.tbl.keep_timetags

====
